---- MODULE Spec2Model ----
(***************************************************************************)
(* A model of the command dispatcher of simple-discordjs: the Commands     *)
(* class (options, registry, tokenizer, middleware loop, candidate loop),  *)
(* the Auth middleware with its addrole command and role store, and the    *)
(* RateLimiter middleware with its per-user counters and reset timers.     *)
(*                                                                         *)
(* JavaScript runs every callback to completion, so one action of the      *)
(* model is one run of synchronous code between two suspension points      *)
(* (await).  Continuations that the promise machinery schedules as         *)
(* microtasks directly behind the code that settles a promise are part of  *)
(* the same action.                                                        *)
(***************************************************************************)
EXTENDS Naturals, Sequences, FiniteSets, Bags, TLC

VARIABLES
    commands,      \* Commands.commands: lower-case alias -> symbol
    patterns,      \* Commands.patterns: Map<RegExp, Symbol> in insertion order
    funcs,         \* Commands.funcs: Map<Symbol, CommandObject>; symbol n is funcs[n]
    middlewares,   \* Commands.middlewares
    roleStore,     \* the Role table of the auth database: role id -> record
    pending,       \* addrole handler bodies suspended before they persist
    disp,          \* the dispatch in flight: the position of message() and of the middleware loop
    trace,         \* what the dispatch in flight has done so far, in order
    options,       \* Commands.options
    defaultPrefix, \* Commands.defaultPrefix.str
    parked,        \* the other dispatches in flight, each suspended at an await (a bag)
    counts,        \* RateLimiter.count: user id -> checks counted in the window
    timers         \* the callbacks of deferClear that setTimeout has not run yet, per user id

vars == <<commands, patterns, funcs, middlewares, roleStore, pending, disp, trace,
          options, defaultPrefix, parked, counts, timers>>

registry == <<commands, patterns, funcs, middlewares>>

(***************************************************************************)
(* Bounds of the model.                                                    *)
(***************************************************************************)
MaxDefs == 4       \* defineCommand calls (Spec)
MaxWares == 2      \* use calls (Spec)
MaxAuthDefs == 2   \* defineCommand calls (SpecAuth)
MaxAuthWares == 2  \* use calls (SpecAuth)
MaxErrorDefs == 2     \* defineCommand calls (SpecErrors)
MaxErrorWares == 2    \* use calls (SpecErrors)
MaxRegistryDefs == 3  \* defineCommand calls (SpecRegistry)
MaxOptionDefs == 2    \* defineCommand calls (SpecOptions)
MaxOptionWares == 1   \* use calls (SpecOptions)
MaxTokenDefs == 1     \* defineCommand calls (SpecTokens)
MaxLen == 4           \* characters of a message (SpecTokens)
MaxLimiterDefs == 1    \* defineCommand calls (SpecLimiter)
MaxFanOutDefs == 2     \* defineCommand calls (SpecFanOut)
MaxFanOutWares == 1    \* use calls (SpecFanOut)
MaxLimiterWares == 2   \* use calls (SpecLimiter)
MaxPrefixDefs == 2     \* defineCommand calls (SpecPrefix)
MaxPrefixWares == 1    \* use calls (SpecPrefix)
MaxGuildDefs == 2      \* defineCommand calls (SpecGuilds)
MaxGuildWares == 1     \* use calls (SpecGuilds)
MaxPatternDefs == 3    \* defineCommand calls (SpecPatterns)
MaxHelpDefs == 3       \* defineCommand and generateHelp calls (SpecHelp)
MaxHelpWares == 1      \* use calls (SpecHelp)
MaxLiveDefs == 2       \* defineCommand calls (SpecLive)
MaxLiveWares == 2      \* use calls (SpecLive)
MaxPending == 0    \* addrole bodies still suspended when the next message is taken
MaxParked == 1     \* dispatches suspended besides the one that ran last
MaxCount == 3      \* checks the limiter has counted for a user when a message is taken

(***************************************************************************)
(* Strings.  TLC evaluates Len, SubSeq and \o on strings; a character is a *)
(* string of length one.                                                   *)
(***************************************************************************)
UpperCase == "ABCDEFGHIJKLMNOPQRSTUVWXYZ"
LowerCase == "abcdefghijklmnopqrstuvwxyz"

CharAt(s, i) == SubSeq(s, i, i)

\* the lower-case letter of each upper-case one, and back
ToLower ==
    [c \in {CharAt(UpperCase, i) : i \in 1..Len(UpperCase)} |->
        CharAt(LowerCase, CHOOSE i \in 1..Len(UpperCase) : CharAt(UpperCase, i) = c)]

ToUpper ==
    [c \in {CharAt(LowerCase, i) : i \in 1..Len(LowerCase)} |->
        CharAt(UpperCase, CHOOSE i \in 1..Len(LowerCase) : CharAt(LowerCase, i) = c)]

LowerChar(c) == IF c \in DOMAIN ToLower THEN ToLower[c] ELSE c

UpperChar(c) == IF c \in DOMAIN ToUpper THEN ToUpper[c] ELSE c

RECURSIVE toLowerCase(_)
toLowerCase(s) ==
    IF s = "" THEN "" ELSE LowerChar(CharAt(s, 1)) \o toLowerCase(SubSeq(s, 2, Len(s)))

RECURSIVE toUpperCase(_)
toUpperCase(s) ==
    IF s = "" THEN "" ELSE UpperChar(CharAt(s, 1)) \o toUpperCase(SubSeq(s, 2, Len(s)))

startsWith(s, p) == Len(s) >= Len(p) /\ SubSeq(s, 1, Len(p)) = p

\* String.prototype.trim, for the one whitespace character the messages use.
RECURSIVE trim(_)
trim(s) ==
    IF s = "" THEN ""
    ELSE IF CharAt(s, 1) = " " THEN trim(SubSeq(s, 2, Len(s)))
    ELSE IF CharAt(s, Len(s)) = " " THEN trim(SubSeq(s, 1, Len(s) - 1))
    ELSE s

\* s.split(/\s/): one split at every single whitespace character, so that two
\* neighbouring ones give an empty token.
RECURSIVE split(_)
split(s) ==
    IF \E i \in 1..Len(s) : CharAt(s, i) = " "
    THEN LET i == CHOOSE j \in 1..Len(s) :
                    CharAt(s, j) = " " /\ \A k \in 1..(j - 1) : CharAt(s, k) # " "
         IN  <<SubSeq(s, 1, i - 1)>> \o split(SubSeq(s, i + 1, Len(s)))
    ELSE <<s>>

\* Array.prototype.join(' ')
RECURSIVE join(_)
join(arr) ==
    IF arr = <<>> THEN ""
    ELSE IF Len(arr) = 1 THEN arr[1]
    ELSE arr[1] \o " " \o join(Tail(arr))

\* new RegExp(pattern).test(content) for a pattern of literal characters: the
\* pattern occurs somewhere in the content.
test(regex, content) ==
    \E i \in 1..(Len(content) + 1) :
        /\ i + Len(regex.source) - 1 <= Len(content)
        /\ SubSeq(content, i, i + Len(regex.source) - 1) = regex.source

(***************************************************************************)
(* Optional values: <<>> is undefined, <<v>> is the value v.               *)
(***************************************************************************)
Undefined == <<>>
Some(v) == <<v>>

(***************************************************************************)
(* RoleTypes (middleware/auth.ts).                                         *)
(***************************************************************************)
ALL == 0
MOD == 1
ADMIN == 2
OWNER == 3
SUPERUSER == 4

\* (RoleTypes as any)[key] for the keys that are names of the enumeration; any
\* other key of the message pool is not a property of the object.
RoleTypes(key) ==
    CASE key = "ALL" -> Some(ALL)
      [] key = "MOD" -> Some(MOD)
      [] key = "ADMIN" -> Some(ADMIN)
      [] key = "OWNER" -> Some(OWNER)
      [] key = "SUPERUSER" -> Some(SUPERUSER)
      [] OTHER -> Undefined

(***************************************************************************)
(* The transport: identities, the guild, its roles and who holds them.     *)
(***************************************************************************)
ClientUser == "bot"         \* client.user.id
Superuser == "su"           \* the identity given to new Auth(superuser)
GuildOwner == "owner"       \* message.guild.ownerID
Guild == "g1"               \* message.guild.id
OtherGuild == "g2"          \* the id of a second guild the bot serves
RoleIds == {"r1", "r2", "r3"}   \* r1 and r2 are roles of g1, r3 is one of g2

\* message.guild.member(message.author).roles
\* (every member holds the @everyone role, whose id is the guild's)
memberRoles(author) == IF author = "alice" THEN {Guild, "r1"} ELSE {Guild}

\* the same for a message of either guild: in g2, alice holds r3
memberRolesIn(guild, author) ==
    IF guild = Guild THEN memberRoles(author)
    ELSE IF author = "alice" THEN {OtherGuild, "r3"} ELSE {OtherGuild}

\* message.guild.ownerID: alice owns g2
ownerID(guild) == IF guild = Guild THEN GuildOwner ELSE "alice"

\* the identities that send messages
Users == {"alice", "owner", "su", ClientUser}

(***************************************************************************)
(* The engine's configuration: new Commands(prefix, client, options).      *)
(***************************************************************************)
Prefix == "!"

\* a prefix with a letter in it, after the constructor's 'y>'
LetterPrefix == "y>"

\* the defaults of the module (dist/commands.js)
defaultOptions ==
    [botType |-> Some("normal"), deleteCommandMessage |-> Some(FALSE)]

\* new Commands(prefix, client): no options argument
NoOptions == [botType |-> Undefined, deleteCommandMessage |-> Undefined]

\* the options arguments an application passes
OptionsGiven ==
    {[botType |-> b, deleteCommandMessage |-> d] :
        b \in {Undefined, Some("normal"), Some("self"), Some("guildonly")},
        d \in {Undefined, Some(TRUE)}}

\* Object.assign({ defaultOptions }, options): the target has the one
\* property defaultOptions, so that a key the argument leaves out stays
\* undefined in the result
assign(given) ==
    [defaultOptions |-> defaultOptions, botType |-> given.botType,
     deleteCommandMessage |-> given.deleteCommandMessage]

\* a variant of botVerify under which every message is eligible (used to see
\* that C21_EligibilityGate depends on the verifier)
botVerifyAll(botType, message) == TRUE

\* this.botVerify(botType)(message)
botVerify(botType, message) ==
    CASE botType = Some("self") -> ClientUser = message.author
      [] botType = Some("guildonly") -> message.channel = "text"
      [] OTHER -> message.author # ClientUser

(***************************************************************************)
(* RateLimiter(intervalMessageLimit, intervalClearLength).                 *)
(***************************************************************************)
intervalMessageLimit == 2

(***************************************************************************)
(* Command definitions the embedding application registers.  A RegExp is   *)
(* an object: obj is its identity, source its pattern.                     *)
(***************************************************************************)
RegexPong == [obj |-> "re1", source |-> "pong"]
RegexNg == [obj |-> "re2", source |-> "ng"]
RegexAdd == [obj |-> "re3", source |-> "add"]

\* an alias command after the README's ping, with a capital in its name
Ping ==
    [names |-> <<"Ping", "p">>, pattern |-> Undefined, noPrefix |-> FALSE,
     parameters |-> Undefined, authentication |-> Undefined, action |-> "ping"]

\* a pattern command after the README's pong, with a pattern of literal characters
Pong ==
    [names |-> <<"pang", "pong">>, pattern |-> Some(RegexPong), noPrefix |-> FALSE,
     parameters |-> Undefined, authentication |-> Some(ADMIN), action |-> "pinger"]

\* a second definition registered with the RegExp object of Pong
Pung ==
    [names |-> <<"pung">>, pattern |-> Some(RegexPong), noPrefix |-> FALSE,
     parameters |-> Undefined, authentication |-> Undefined, action |-> "punger"]

\* a pattern command with a RegExp of its own
Pang ==
    [names |-> <<"pang">>, pattern |-> Some(RegexNg), noPrefix |-> FALSE,
     parameters |-> Undefined, authentication |-> Undefined, action |-> "panger"]

\* alias commands with a minimum level
Kick ==
    [names |-> <<"kick">>, pattern |-> Undefined, noPrefix |-> FALSE,
     parameters |-> Undefined, authentication |-> Some(MOD), action |-> "kick"]

Eval ==
    [names |-> <<"eval">>, pattern |-> Undefined, noPrefix |-> FALSE,
     parameters |-> Undefined, authentication |-> Some(SUPERUSER), action |-> "eval"]

\* an alias command that shares the alias ping, in another letter case
Echo ==
    [names |-> <<"PING", "echo">>, pattern |-> Undefined, noPrefix |-> FALSE,
     parameters |-> Undefined, authentication |-> Undefined, action |-> "echo"]

\* an alias command whose second alias is a property every object inherits
Proto ==
    [names |-> <<"proto", "__proto__">>, pattern |-> Undefined, noPrefix |-> FALSE,
     parameters |-> Undefined, authentication |-> Undefined, action |-> "proto"]

\* an alias command whose handler is a plain function that throws an Error
Boom ==
    [names |-> <<"boom">>, pattern |-> Undefined, noPrefix |-> FALSE,
     parameters |-> Undefined, authentication |-> Undefined, action |-> "thrower"]

\* an alias command whose handler is an async function that throws an Error
\* (the promise it returns rejects)
Crash ==
    [names |-> <<"crash">>, pattern |-> Undefined, noPrefix |-> FALSE,
     parameters |-> Undefined, authentication |-> Undefined, action |-> "rejecter"]

\* an alias command that asks for no prefix
Hello ==
    [names |-> <<"hello">>, pattern |-> Undefined, noPrefix |-> TRUE,
     parameters |-> Undefined, authentication |-> Undefined, action |-> "hello"]

\* an alias command of the letters of SpecTokens that asks for no prefix
Pp ==
    [names |-> <<"pp">>, pattern |-> Undefined, noPrefix |-> TRUE,
     parameters |-> Undefined, authentication |-> Undefined, action |-> "pp"]

\* a pattern command that the text of an addrole request matches
Audit ==
    [names |-> <<"audit">>, pattern |-> Some(RegexAdd), noPrefix |-> FALSE,
     parameters |-> Undefined, authentication |-> Undefined, action |-> "audit"]

\* the definition generateHelp registers
Help ==
    [names |-> <<"help", "h">>, pattern |-> Undefined, noPrefix |-> FALSE,
     parameters |-> Undefined, authentication |-> Undefined, action |-> "help"]

\* Auth.getCommand()
getCommandAuth ==
    [names |-> <<"addrole", "role", "setrole">>, pattern |-> Undefined, noPrefix |-> FALSE,
     parameters |-> Some(<<"type", "mentions">>), authentication |-> Some(OWNER),
     action |-> "addRoleCommand"]

\* the pools of definitions each specification registers
Definitions == {Ping, Pong, Pung, Pang}
AuthDefinitions == {Kick, Pong, Eval, getCommandAuth}
ErrorDefinitions == {Boom, Crash, Kick, getCommandAuth}
RegistryDefinitions == {Ping, Echo, Kick, Proto}
TokenDefinitions == {Ping, Pp}
LimiterDefinitions == {Ping}
FanOutDefinitions == {Ping, Pang}
OptionDefinitions == {Ping, Hello, Pang, Audit, getCommandAuth}
PrefixDefinitions == {Ping, Hello}
GuildDefinitions == {Kick, getCommandAuth}
PatternDefinitions == {Ping, Audit, Pong, Pung}
LiveDefinitions == {Ping, Pang, getCommandAuth}
HelpDefinitions == {Ping, Echo, Pong, Pung, Proto}

(***************************************************************************)
(* Middleware the application passes to use(): a predicate of its own      *)
(* ("predicate"), whose answer the model leaves open, auth.authenticate    *)
(* and limiter.protect ("protect").                                        *)
(***************************************************************************)
Wares == {"predicate"}
AuthWares == {"authenticate"}
ErrorWares == {"predicate", "authenticate"}
OptionWares == {"predicate"}
LimiterWares == {"protect", "predicate"}
FanOutWares == {"protect"}
PrefixWares == {"predicate"}
GuildWares == {"authenticate"}
LiveWares == {"predicate"}
HelpWares == {"predicate"}

(***************************************************************************)
(* Inbound messages.                                                       *)
(***************************************************************************)
\* message.channel.type: 'text' for a text channel of a guild, 'dm' for a
\* direct message
MsgIn(author, content, mentions, channel) ==
    [author |-> author, content |-> content, mentions |-> mentions, channel |-> channel,
     guild |-> Guild]

\* a message sent in a text channel of the guild
Msg(author, content, mentions) == MsgIn(author, content, mentions, "text")

\* a message sent in a text channel of the given guild
MsgAt(guild, author, content, mentions) ==
    [Msg(author, content, mentions) EXCEPT !.guild = guild]

Messages ==
    { Msg("alice", "!ping", {}),
      Msg("alice", "!PING pong", {}),
      Msg("alice", "pong", {}),
      Msg("alice", "p pong", {}),
      Msg("alice", "!nope", {}),
      Msg("bot", "!ping", {}) }

RegistryMessages ==
    { Msg("alice", "!ping", {}),
      Msg("alice", "!PING", {}),
      Msg("alice", "!p", {}),
      Msg("alice", "!Echo", {}),
      Msg("alice", "!kick", {}),
      Msg("alice", "!KICK x", {}),
      Msg("alice", "!__proto__", {}) }

ErrorMessages ==
    { Msg("alice", " ", {}),
      Msg("alice", "!nope", {}),
      Msg("alice", "boom", {}),
      Msg("alice", "!boom", {}),
      Msg("alice", "!crash", {}),
      Msg("alice", "!kick", {}),
      Msg("owner", "!addrole", {}),
      Msg("owner", "addrole", {}),
      Msg("owner", "!addrole mod @r1", {"r1"}) }

OptionMessages ==
    { Msg("alice", "!ping", {}),
      MsgIn("alice", "!ping", {}, "dm"),
      Msg(ClientUser, "!ping", {}),
      MsgIn(ClientUser, "!ping ng", {}, "dm"),
      Msg("alice", "ng", {}),
      Msg("alice", "!ping ng", {}),
      Msg("alice", "ping", {}),
      Msg("alice", "hello", {}),
      Msg("alice", "!hello", {}),
      Msg("alice", "!nope", {}),
      Msg("alice", "!!nope", {}),
      Msg("alice", "nope", {}),
      MsgIn(ClientUser, " ", {}, "dm"),
      Msg("owner", "!addrole mod @r1", {"r1"}),
      Msg("owner", "!addrole", {}) }

\* the characters of the messages of SpecTokens: the prefix, a letter,
\* whitespace
Alphabet == {Prefix, "p", " "}

\* the texts of at most n characters
RECURSIVE Contents(_)
Contents(n) ==
    IF n = 0 THEN {""}
    ELSE Contents(n - 1) \cup {s \o c : s \in Contents(n - 1), c \in Alphabet}

TokenMessages == {Msg("alice", content, {}) : content \in Contents(MaxLen)}

LimiterMessages ==
    { Msg("alice", "!ping", {}),
      Msg("alice", "!nope", {}) }

FanOutMessages ==
    { Msg("alice", "!ping", {}),
      Msg("alice", "!ping ng", {}),
      Msg("owner", "!ping ng", {}) }

\* messages that write the prefix 'y>' in either letter case, or leave it out
PrefixMessages ==
    { Msg("alice", "y>ping", {}),
      Msg("alice", "Y>ping", {}),
      Msg("alice", "Y>PING x", {}),
      Msg("alice", "ping", {}),
      Msg("alice", "y>hello", {}),
      Msg("alice", "Y>hello", {}),
      Msg("alice", "hello", {}),
      Msg("alice", "Y>nope", {}),
      Msg("alice", "y>", {}) }

\* messages of two guilds: alice owns g2 and holds r3 there, in g1 she holds
\* r1 and owns nothing
GuildMessages ==
    { MsgAt(Guild, "alice", "!kick", {}),
      MsgAt(OtherGuild, "alice", "!kick", {}),
      MsgAt(OtherGuild, "owner", "!kick", {}),
      MsgAt(Guild, "owner", "!addrole mod @r1", {"r1"}),
      MsgAt(Guild, "owner", "!addrole mod @r2", {"r2"}),
      MsgAt(OtherGuild, "alice", "!addrole mod @r3", {"r3"}) }

\* messages that name pattern commands by their names and by their patterns
PatternMessages ==
    { Msg("alice", "!audit", {}),
      Msg("alice", "audit", {}),
      Msg("alice", "add", {}),
      Msg("alice", "!ping add", {}),
      Msg("alice", "!pang", {}),
      Msg("alice", "!pong", {}),
      Msg("alice", "!ping", {}) }

\* messages that resolve to no candidate, to one and to two, and one whose
\* handler suspends before it persists
LiveMessages ==
    { Msg("alice", "!ping", {}),
      Msg("alice", "!ping ng", {}),
      Msg("alice", "ng", {}),
      Msg("alice", "!nope", {}),
      Msg("owner", "!addrole mod @r1 ng", {"r1"}) }

HelpMessages ==
    { Msg("alice", "!help", {}),
      Msg("alice", "!h pong", {}),
      Msg("alice", "!ping", {}),
      Msg("alice", "!__proto__", {}) }

AuthMessages ==
    { Msg("alice", "!kick", {}),
      Msg("alice", "pong", {}),
      Msg("alice", "kick pong", {}),
      Msg("alice", "!addrole admin @r2", {"r2"}),
      Msg("owner", "!addrole mod @r1", {"r1"}),
      Msg("owner", "!addrole Admin @r1@r2", {"r1", "r2"}),
      Msg("owner", "!addrole owner @r1", {"r1"}),
      Msg("owner", "!eval", {}),
      Msg("su", "!eval pong", {}),
      Msg("su", "!kick", {}),
      Msg("su", "!addrole mod @r1", {"r1"}) }

(***************************************************************************)
(* The registry: use, defineCommand, patternCommand.                       *)
(***************************************************************************)
\* a variant of Symbol that returns the token of the last registration again
\* (used to see that C37_RegistryClosed depends on the tokens being fresh)
SymbolShared == IF funcs = << >> THEN Len(funcs) + 1 ELSE funcs[Len(funcs)].symbol

\* Symbol(commandNames[0]): a value no earlier call returned
Symbol == Len(funcs) + 1

\* the CommandObject stored under a symbol
CommandObject(definition, symbol, isPattern) ==
    [definition |-> definition, symbol |-> symbol, aliases |-> definition.names,
     pattern |-> isPattern]

\* Map.prototype.set on this.patterns: a key already present keeps its place
\* and takes the new value
mapSet(map, regex, symbol) ==
    IF \E i \in 1..Len(map) : map[i].regex.obj = regex.obj
    THEN [i \in 1..Len(map) |->
            IF map[i].regex.obj = regex.obj
            THEN [regex |-> regex, symbol |-> symbol] ELSE map[i]]
    ELSE Append(map, [regex |-> regex, symbol |-> symbol])

patternCommand(regex, definition) ==
    /\ funcs' = Append(funcs, CommandObject(definition, Symbol, TRUE))
    /\ patterns' = mapSet(patterns, regex, Symbol)
    /\ UNCHANGED commands

\* Commands.commands is a plain object ({}): an assignment to its property
\* __proto__ runs the setter of Object.prototype, which ignores a value that
\* is no object (a symbol), so the key is never bound; a read of it yields
\* Object.prototype, for which funcs holds nothing.
Unbindable == {"__proto__"}

\* a variant of bindAliases under which every alias of the map takes the new
\* reference (used to see that C14_DisjointAliases depends on the keys)
bindAliasesAll(map, names, reference) ==
    LET keys == {toLowerCase(names[i]) : i \in 1..Len(names)} \ Unbindable
    IN  [a \in (DOMAIN map) \cup keys |-> reference]

\* this.commands[alias.toLowerCase()] = reference, for every alias
bindAliases(map, names, reference) ==
    LET keys == {toLowerCase(names[i]) : i \in 1..Len(names)} \ Unbindable
    IN  [a \in (DOMAIN map) \cup keys |-> IF a \in keys THEN reference ELSE map[a]]

\* a variant of defineCommand that binds the names of a pattern definition
\* as aliases too (used to see that C34_AliasOrPattern depends on the early
\* return)
defineCommandBoth(definition) ==
    /\ funcs' = Append(funcs, CommandObject(definition, Symbol, definition.pattern # Undefined))
    /\ commands' = bindAliases(commands, definition.names, Symbol)
    /\ patterns' = IF definition.pattern # Undefined
                   THEN mapSet(patterns, definition.pattern[1], Symbol)
                   ELSE patterns

defineCommand(definition) ==
    IF definition.pattern # Undefined
    THEN patternCommand(definition.pattern[1], definition)
    ELSE /\ funcs' = Append(funcs, CommandObject(definition, Symbol, FALSE))
         /\ commands' = bindAliases(commands, definition.names, Symbol)
         /\ UNCHANGED patterns

(***************************************************************************)
(* The tokenizer and the lookup.                                           *)
(***************************************************************************)
\* a variant of parseRequest whose prefix group matches a token that is the
\* prefix and nothing else (used to see that C24_Tokenizer depends on the
\* (.+) that follows the group)
parseRequestBare(content) ==
    LET tokens == split(trim(content))
        fullCommand == tokens[1]
    IN  IF fullCommand = ""
        THEN [ok |-> FALSE, chatPrefix |-> "", chatCommand |-> "", parameters |-> <<>>]
        ELSE IF startsWith(fullCommand, defaultPrefix)
        THEN [ok |-> TRUE, chatPrefix |-> defaultPrefix,
              chatCommand |-> SubSeq(fullCommand, Len(defaultPrefix) + 1, Len(fullCommand)),
              parameters |-> Tail(tokens)]
        ELSE [ok |-> TRUE, chatPrefix |-> "", chatCommand |-> fullCommand,
              parameters |-> Tail(tokens)]

\* parseRequest: [ok, chatPrefix, chatCommand, parameters]; ok is FALSE where
\* the code throws 'Message is malformed'.  A chatPrefix of "" stands for the
\* undefined of an unmatched group.
parseRequest(content) ==
    LET tokens == split(trim(content))
        fullCommand == tokens[1]
    IN  IF fullCommand = ""
        THEN [ok |-> FALSE, chatPrefix |-> "", chatCommand |-> "", parameters |-> <<>>]
        ELSE IF startsWith(fullCommand, defaultPrefix) /\ Len(fullCommand) > Len(defaultPrefix)
        THEN [ok |-> TRUE, chatPrefix |-> defaultPrefix,
              chatCommand |-> SubSeq(fullCommand, Len(defaultPrefix) + 1, Len(fullCommand)),
              parameters |-> Tail(tokens)]
        ELSE [ok |-> TRUE, chatPrefix |-> "", chatCommand |-> fullCommand,
              parameters |-> Tail(tokens)]

\* checkPatterns: the symbols of the patterns that match, in the Map's order
RECURSIVE checkPatterns(_, _)
checkPatterns(map, content) ==
    IF map = <<>> THEN <<>>
    ELSE (IF test(map[1].regex, content) THEN <<map[1].symbol>> ELSE <<>>)
         \o checkPatterns(Tail(map), content)

\* getCommand: the candidates (as symbols), the alias match first
getCommand(chatCommand, content) ==
    LET key == toLowerCase(chatCommand)
    IN  (IF key \in DOMAIN commands THEN <<commands[key]>> ELSE <<>>)
        \o checkPatterns(patterns, content)

\* a variant of notFoundNotice that does not look for the doubled prefix (used
\* to see that C22_NotFoundNotice depends on it)
notFoundNoticeAlways(chatPrefix, content) == chatPrefix = defaultPrefix

\* the condition under which getCommand sends 'Command not found!'
notFoundNotice(chatPrefix, content) ==
    chatPrefix = defaultPrefix /\ ~startsWith(content, defaultPrefix \o defaultPrefix)

\* a variant of prefixMissing under which checkPrefix never throws (used to
\* see that C20_ParametersGate depends on the prefix check coming first)
prefixMissingNever(chatPrefix, commandObject) == FALSE

\* a variant of prefixMissing that does not look at noPrefix (used to see
\* that C35_PrefixRequired depends on the flag)
prefixMissingFlagless(chatPrefix, commandObject) ==
    chatPrefix = "" /\ ~commandObject.pattern

\* checkPrefix throws 'Function requires a prefix.'
prefixMissing(chatPrefix, commandObject) ==
    chatPrefix = "" /\ ~commandObject.definition.noPrefix /\ ~commandObject.pattern

\* a variant of prefixed under which every candidate counts as called with
\* the prefix (used to see that C26_DeletionOnlyPrefixed depends on it)
prefixedAlways(commandObject) == TRUE

\* a variant of prefixed under which a pattern command counts as called
\* with the prefix (used to see that C38_DeletedOnce depends on it)
prefixedPatterns(commandObject) == ~commandObject.definition.noPrefix

\* checkPrefix's return value
prefixed(commandObject) ==
    ~(commandObject.definition.noPrefix \/ commandObject.pattern)

\* reverse-mustache for a template of placeholders separated by one space:
\* Undefined where the content does not fit, else Some(name -> text).
reverseMustache(template, content) ==
    LET tokens == split(content)
        n == Len(template)
    IN  IF Len(tokens) < n \/ content = "" THEN Undefined
        ELSE Some([k \in {template[i] : i \in 1..n} |->
                     LET i == CHOOSE j \in 1..n : template[j] = k
                     IN  IF i < n THEN tokens[i] ELSE join(SubSeq(tokens, n, Len(tokens)))])

\* createParameters: the named parameters, null (Undefined) without a template
named(parameterArray, definition) ==
    IF definition.parameters # Undefined
    THEN reverseMustache(definition.parameters[1], join(parameterArray))
    ELSE Undefined

\* the content does not fit the definition's template
mismatch(parameterArray, definition) ==
    definition.parameters # Undefined /\ named(parameterArray, definition) = Undefined

\* How reverse-mustache (a library outside the repository) reports a content
\* that does not fit: by returning null, or by throwing into createParameters'
\* catch block.
MismatchModes == {"null", "throw"}

(***************************************************************************)
(* Auth.                                                                   *)
(***************************************************************************)
\* a variant of getHighestRole under which no identity has a level of its own
\* (used to see that C6_FastPath depends on it)
getHighestRoleAll(message) == ALL

getHighestRole(message) ==
    IF message.author = Superuser THEN SUPERUSER
    ELSE IF message.author = ownerID(message.guild) THEN OWNER
    ELSE ALL

\* !options.authentication
noAuthentication(definition) ==
    definition.authentication = Undefined \/ definition.authentication[1] = 0

\* a variant of fastAccept without the early return for a definition that
\* carries no level (used to see that C31_NoLevelAccepted depends on it)
fastAcceptLevelOnly(message, definition) ==
    IF definition.authentication = Undefined THEN FALSE
    ELSE /\ getHighestRole(message) >= definition.authentication[1]
         /\ getHighestRole(message) # 0

\* authenticate up to its first await: TRUE where it returns a truthy value
\* at once, FALSE where it goes on to the role store
fastAccept(message, definition) ==
    \/ noAuthentication(definition)
    \/ /\ getHighestRole(message) >= definition.authentication[1]
       /\ getHighestRole(message) # 0

\* a variant of roleRecords that counts the records of every role, held by the
\* member or not (used to see that C33_LookupAccepts depends on the ids)
roleRecordsAnyRole(message, definition) ==
    Cardinality({r \in RoleIds :
                    /\ roleStore[r] # Undefined
                    /\ roleStore[r][1].guild = message.guild
                    /\ roleStore[r][1].type <= definition.authentication[1]})

\* the query's count: records of the guild, of a role the member holds, whose
\* type is <= the command's authentication
roleRecords(message, definition) ==
    Cardinality({r \in RoleIds \cap memberRolesIn(message.guild, message.author) :
                    /\ roleStore[r] # Undefined
                    /\ roleStore[r][1].guild = message.guild
                    /\ roleStore[r][1].type <= definition.authentication[1]})

\* a variant of assignable under which every role name passes (used to see
\* that C8_OnlyModOrAdmin depends on it)
assignableAny(role) == TRUE

\* addRoleCommand: the role name passes ['mod', 'admin'].includes(role)
assignable(role) == role \in {"mod", "admin"}

\* addRoleCommand and setRole up to setRole's first await: the records the
\* call goes on to persist, or none where it returns (or throws) before
addRoleTasks(message, parameters) ==
    IF parameters = Undefined THEN {}      \* parameters.named is null: TypeError
    ELSE LET role == toLowerCase(parameters[1]["type"])
             enumType == RoleTypes(toUpperCase(role))
         IN  IF ~assignable(role) THEN {}
             ELSE IF message.mentions = {} THEN {}
             ELSE IF enumType = Undefined \/ enumType[1] = 0 THEN {}
             ELSE {[roles |-> message.mentions, type |-> enumType[1],
                    guild |-> message.guild]}

(***************************************************************************)
(* The dispatch in flight.                                                 *)
(*   pc        "idle": none; "ware": the loop of checkMiddleware awaits the*)
(*             predicate it invoked; "lookup": it awaits authenticate,     *)
(*             which awaits the role store; "done": message() has settled  *)
(*             and no loop is left; "hung": no loop is left and the promise*)
(*             of message() stays pending for ever                         *)
(*   cands     the array getCommand returned, ci the candidate in work     *)
(*   wi        the index of the middleware the loop is at                  *)
(*   rejected  checkMiddleware's promise was rejected: message() caught the*)
(*             CommandError and returned, the loop runs on                 *)
(***************************************************************************)
NoMessage == Msg("", "", {})

Idle ==
    [pc |-> "idle", msg |-> NoMessage, chatPrefix |-> "", chatCommand |-> "",
     parameters |-> <<>>, cands |-> <<>>, ci |-> 0, wi |-> 0, rejected |-> FALSE]

\* One entry of the trace.  e: "ware" (predicate w invoked for candidate c),
\* "result" (it resolved, ok: truthy), "threw" (it threw, or its promise
\* rejected), "handler" (command.action invoked for candidate c), "lookup" (a
\* query sent to the role store), "lookupfailed" (the query rejected),
\* "denied" (the denial notice sent), "notfound" (the notice of getCommand
\* sent), the CommandErrors thrown: "malformed", "unknown", "noprefix",
\* "badparams" (with its notice), "rejection"; "error" (an Error thrown by a
\* handler), "unhandled" (the promise of a handler rejected); "delete"
\* (message.delete called); "return" (the promise of message() fulfilled),
\* "fatal" (it rejected).
Ev(e, c, w, ok) == [e |-> e, c |-> c, w |-> w, ok |-> ok]

\* a dispatch: the position of its message() and what it has done
Dispatch(d, t) == [d |-> d, t |-> t]

\* the running state the synchronous code of dispatch x works on
StateOf(x) == [d |-> x.d, t |-> x.t, p |-> pending, k |-> counts, s |-> timers]

State == StateOf(Dispatch(disp, trace))

log(st, e, ok) == [st EXCEPT !.t = Append(@, Ev(e, st.d.ci, st.d.wi, ok))]

\* message() completes: the loop over the candidates ended, or the catch block
\* swallowed a CommandError
return(st) == [log(st, "return", TRUE) EXCEPT !.d.pc = "done"]

\* a variant of instanceofCommandError under which the catch block swallows
\* nothing (used to see that C15_ExpectedSwallowed depends on it)
instanceofNothing(e) == FALSE

\* the errors that are instances of CommandError: the ones the engine throws
CommandErrors == {"malformed", "unknown", "noprefix", "badparams", "rejection"}

\* e instanceof CommandError
instanceofCommandError(e) == e \in CommandErrors

\* the catch block of message(): a CommandError is swallowed, any other error
\* is thrown again and rejects the promise of message()
catch(st, e) ==
    IF instanceofCommandError(e) THEN return(st)
    ELSE [log(st, "fatal", TRUE) EXCEPT !.d.pc = "done"]

\* throw new CommandError(...) inside the try block of message()
throw(st, e) == catch(log(st, e, TRUE), e)

\* What a call of the handler does: "throws" (an Error, at the call),
\* "rejects" (the promise it returns rejects) or "returns".  addRoleCommand is
\* an async function that reads parameters.named.type: a TypeError for a null
\* named.
handlerOutcome(definition, parameters) ==
    CASE definition.action = "thrower" -> "throws"
      [] definition.action = "rejecter" -> "rejects"
      [] definition.action = "addRoleCommand" /\ parameters = Undefined -> "rejects"
      [] OTHER -> "returns"

\* a variant of invokeHandler under which message() waits for the promise of
\* the handler: it stays where it is while the body of the handler is
\* suspended (used to see that C27_HandlerNotAwaited depends on the call not
\* being awaited)
invokeHandlerAwaited(st) ==
    LET definition == funcs[st.d.cands[st.d.ci]].definition
        parameters == named(st.d.parameters, definition)
        outcome == handlerOutcome(definition, parameters)
        st1 == log([st EXCEPT !.d.wi = 0], "handler", TRUE)
        tasks == addRoleTasks(st.d.msg, parameters)
    IN  IF outcome = "throws" THEN throw(st1, "error")
        ELSE IF outcome = "rejects" THEN log(st1, "unhandled", TRUE)
        ELSE IF definition.action = "addRoleCommand" /\ tasks # {}
        THEN [st1 EXCEPT !.p = @ \cup tasks, !.d.pc = "done"]
        ELSE st1

\* commandSchema.definition.command.action(...): the handler runs up to its
\* first await.  Its value, a promise or not, is dropped: a rejection of it
\* is handled by nobody ("unhandled"); an Error it throws at the call goes to
\* the catch block of message().
invokeHandler(st) ==
    LET definition == funcs[st.d.cands[st.d.ci]].definition
        parameters == named(st.d.parameters, definition)
        outcome == handlerOutcome(definition, parameters)
        st1 == log([st EXCEPT !.d.wi = 0], "handler", TRUE)
    IN  IF outcome = "throws" THEN throw(st1, "error")
        ELSE IF outcome = "rejects" THEN log(st1, "unhandled", TRUE)
        ELSE IF definition.action = "addRoleCommand"
        THEN [st1 EXCEPT !.p = @ \cup addRoleTasks(st.d.msg, parameters)]
        ELSE st1

\* a value of the options is truthy
truthy(option) == option # Undefined /\ option[1] = TRUE

\* if (this.options.deleteCommandMessage && prefixed) message.delete(...)
deleteCommandMessage(st) ==
    IF truthy(options.deleteCommandMessage) /\ prefixed(funcs[st.d.cands[st.d.ci]])
    THEN log(st, "delete", TRUE)
    ELSE st

\* a variant of checkUser's test under which the limit is never exceeded
\* (used to see that C29_LimitHolds depends on the test)
exceedsNever(n) == FALSE

\* this.count[id] > this.intervalMessageLimit
exceeds(n) == n > intervalMessageLimit

\* a variant of checkUser that calls deferClear at every check (used to see
\* that C39_OneTimer depends on the test of the count)
checkUserDeferring(st, id) ==
    LET n == IF st.k[id] = Undefined THEN 1 ELSE st.k[id][1] + 1
    IN  [st |-> [st EXCEPT !.k[id] = Some(n), !.s[id] = @ + 1],
         result |-> ~exceeds(n)]

\* RateLimiter.checkUser(id): a count that is undefined or 0 starts a window
\* (deferClear sets the timer), the count goes up by one (undefined + 1 is
\* NaN, which || 1 turns into 1), and the answer is whether it is within the
\* limit.
checkUser(st, id) ==
    LET fresh == st.k[id] = Undefined \/ st.k[id][1] = 0
        n == IF st.k[id] = Undefined THEN 1 ELSE st.k[id][1] + 1
    IN  [st |-> [st EXCEPT !.k[id] = Some(n),
                           !.s[id] = IF fresh THEN @ + 1 ELSE @],
         result |-> ~exceeds(n)]

RECURSIVE candidate(_, _)
RECURSIVE checkMiddleware(_, _)
RECURSIVE resolved(_, _, _)

\* The body of message()'s for loop for candidate st.d.ci, up to the first
\* await that suspends.
candidate(st, mode) ==
    IF st.d.ci > Len(st.d.cands) THEN return(st)
    ELSE LET commandSchema == funcs[st.d.cands[st.d.ci]]
         IN  IF prefixMissing(st.d.chatPrefix, commandSchema) THEN throw(st, "noprefix")
             ELSE IF mismatch(st.d.parameters, commandSchema.definition) /\ mode = "throw"
             THEN throw(st, "badparams")
             ELSE checkMiddleware([st EXCEPT !.d.wi = 1], mode)

\* The loop of checkMiddleware from middleware st.d.wi on.
checkMiddleware(st, mode) ==
    IF st.d.wi > Len(middlewares)
    THEN \* resolve(true): without effect on a promise already rejected
         IF st.d.rejected THEN [st EXCEPT !.d.pc = "done"]
         ELSE LET st1 == [invokeHandler(st) EXCEPT !.d.wi = 0]
              IN  IF st1.d.pc = "done" THEN st1    \* the handler threw
                  ELSE candidate([deleteCommandMessage(st1) EXCEPT !.d.ci = @ + 1], mode)
    ELSE LET definition == funcs[st.d.cands[st.d.ci]].definition
             st1 == log(st, "ware", TRUE)
         IN  IF middlewares[st.d.wi] = "authenticate"
             THEN IF fastAccept(st.d.msg, definition)
                  THEN resolved(st1, TRUE, mode)
                  ELSE [st1 EXCEPT !.d.pc = "lookup"]
             ELSE IF middlewares[st.d.wi] = "protect"
             THEN LET checked == checkUser(st1, st.d.msg.author)
                  IN  resolved(checked.st, checked.result, mode)
             ELSE [st1 EXCEPT !.d.pc = "ware"]

\* a variant of rejects under which no result rejects (used to see that
\* C2_HandlerAfterAllWares depends on the test)
rejectsNever(result) == FALSE

\* if (!result): the result of the awaited middleware is falsy
rejects(result) == ~result

\* The awaited middleware resolved to result: a falsy one rejects the promise
\* (message() returns through its catch block), and the loop goes on.
resolved(st, result, mode) ==
    LET st1 == log(st, "result", result)
        st2 == IF rejects(result) /\ ~st1.d.rejected
               THEN [throw(st1, "rejection") EXCEPT !.d.rejected = TRUE]
               ELSE st1
    IN  checkMiddleware([st2 EXCEPT !.d.wi = @ + 1], mode)

\* The awaited middleware threw (its promise rejected): the async executor of
\* checkMiddleware ends with a rejection nobody handles, and neither resolve
\* nor reject is called any more.
threw(st) ==
    [log(st, "threw", TRUE) EXCEPT !.d.pc = IF st.d.rejected THEN "done" ELSE "hung"]

(***************************************************************************)
(* Actions.                                                                *)
(***************************************************************************)
\* new Commands(prefix, client, given), and the state the application and
\* the rate limiter start in
construct(prefix, given) ==
    /\ commands = << >>
    /\ patterns = << >>
    /\ funcs = << >>
    /\ middlewares = << >>
    /\ roleStore = [r \in RoleIds |-> Undefined]
    /\ pending = {}
    /\ disp = Idle
    /\ trace = << >>
    /\ options = assign(given)
    /\ defaultPrefix = prefix
    /\ parked = EmptyBag
    /\ counts = [id \in Users |-> Undefined]
    /\ timers = [id \in Users |-> 0]

Init == construct(Prefix, NoOptions)

InitOptions == \E given \in OptionsGiven : construct(Prefix, given)

InitPrefix == construct(LetterPrefix, NoOptions)

set(st) ==
    /\ disp' = st.d
    /\ trace' = st.t
    /\ pending' = st.p
    /\ counts' = st.k
    /\ timers' = st.s

\* a variant of frame under which a step of a dispatch may empty the alias map
\* (used to see that C28_DispatchReadsOnly depends on the frame)
frameLoose ==
    /\ commands' \in {commands, << >>}
    /\ UNCHANGED <<patterns, funcs, middlewares, options, defaultPrefix>>

\* what no statement of message(), parseRequest, getCommand, checkPatterns,
\* checkPrefix, createParameters and checkMiddleware assigns to
frame == UNCHANGED <<commands, patterns, funcs, middlewares, options, defaultPrefix>>

\* a variant of suspended under which no dispatch is taken up again: what it
\* awaits never settles (used to see that C36_DispatchTerminates depends on
\* the predicates resolving)
suspendedForEver(d) == FALSE

\* the dispatch is suspended at an await
suspended(d) == d.pc \in {"ware", "lookup"}

\* the dispatches suspended at an await, the last one that ran among them
inflight ==
    parked (+) (IF suspended(disp) THEN SetToBag({Dispatch(disp, trace)}) ELSE EmptyBag)

\* dispatch x runs on: the others stay suspended
resume(x) == parked' = inflight (-) SetToBag({x})

\* commands.use(middleware)
Use(wares, max) ==
    /\ disp.pc = "idle"
    /\ Len(middlewares) < max
    /\ \E ware \in wares : middlewares' = Append(middlewares, ware)
    /\ UNCHANGED <<commands, patterns, funcs, roleStore, pending, disp, trace>>
    /\ UNCHANGED <<options, defaultPrefix, parked, counts, timers>>

\* commands.defineCommand(definition)
DefineCommand(definitions, max) ==
    /\ disp.pc = "idle"
    /\ Len(funcs) < max
    /\ \E definition \in definitions : defineCommand(definition)
    /\ UNCHANGED <<middlewares, roleStore, pending, disp, trace>>
    /\ UNCHANGED <<options, defaultPrefix, parked, counts, timers>>

\* commands.generateHelp(): the descriptions are read from funcs, and the
\* help command is registered as any other command
GenerateHelp(max) ==
    /\ disp.pc = "idle"
    /\ Len(funcs) < max
    /\ defineCommand(Help)
    /\ UNCHANGED <<middlewares, roleStore, pending, disp, trace>>
    /\ UNCHANGED <<options, defaultPrefix, parked, counts, timers>>

\* the verifier message() takes from the options
verifier(message) == botVerify(options.botType, message)

\* the limiter has counted fewer than MaxCount checks of the author
countable(message) ==
    IF counts[message.author] = Undefined THEN TRUE
    ELSE counts[message.author][1] < MaxCount

\* commands.message(message), up to its first await that suspends
onMessage(messages) ==
    \E message \in messages, mode \in MismatchModes :
        LET request == parseRequest(message.content)
            cands == getCommand(request.chatCommand, message.content)
            st0 == [State EXCEPT !.d = [Idle EXCEPT !.msg = message], !.t = <<>>]
            st == [st0 EXCEPT !.d.chatPrefix = request.chatPrefix,
                              !.d.chatCommand = request.chatCommand,
                              !.d.parameters = request.parameters,
                              !.d.cands = cands, !.d.ci = 1]
        IN  /\ countable(message)
            /\ IF ~verifier(message) THEN set([st0 EXCEPT !.d.pc = "done"])
               ELSE IF ~request.ok THEN set(throw(st0, "malformed"))
               ELSE IF cands = <<>>
               THEN IF notFoundNotice(request.chatPrefix, message.content)
                    THEN set(throw(log(st, "notfound", TRUE), "unknown"))
                    ELSE set(throw(st, "unknown"))
               ELSE set(candidate(st, mode))

\* the client emits a message while no dispatch is in focus
Message(messages) ==
    /\ disp.pc = "idle"
    /\ Cardinality(pending) <= MaxPending
    /\ onMessage(messages)
    /\ frame
    /\ UNCHANGED <<roleStore, parked>>

\* the client emits a message while the dispatch that ran last is suspended
MessageMeanwhile(messages) ==
    /\ suspended(disp)
    /\ BagCardinality(parked) < MaxParked
    /\ onMessage(messages)
    /\ parked' = inflight
    /\ frame
    /\ UNCHANGED roleStore

\* the predicate a dispatch awaits resolves
PredicateResolves ==
    /\ \E x \in BagToSet(inflight) :
        /\ x.d.pc = "ware"
        /\ \E result \in BOOLEAN, mode \in MismatchModes :
              set(resolved(StateOf(x), result, mode))
        /\ resume(x)
    /\ frame
    /\ UNCHANGED roleStore

\* the predicate a dispatch awaits throws
PredicateThrows ==
    /\ \E x \in BagToSet(inflight) :
        /\ x.d.pc = "ware"
        /\ set(threw(StateOf(x)))
        /\ resume(x)
    /\ frame
    /\ UNCHANGED roleStore

\* authenticate's query returns: it resolves true for a count above zero, and
\* else sends the denial and resolves false
RoleLookup ==
    /\ \E x \in BagToSet(inflight) :
        /\ x.d.pc = "lookup"
        /\ \E mode \in MismatchModes :
            LET definition == funcs[x.d.cands[x.d.ci]].definition
                st == log(StateOf(x), "lookup", TRUE)
            IN  IF roleRecords(x.d.msg, definition) > 0
                THEN set(resolved(st, TRUE, mode))
                ELSE set(resolved(log(st, "denied", TRUE), FALSE, mode))
        /\ resume(x)
    /\ frame
    /\ UNCHANGED roleStore

\* authenticate's query rejects: authenticate has no catch, so its promise
\* rejects
RoleLookupFails ==
    /\ \E x \in BagToSet(inflight) :
        /\ x.d.pc = "lookup"
        /\ set(threw(log(log(StateOf(x), "lookup", TRUE), "lookupfailed", TRUE)))
        /\ resume(x)
    /\ frame
    /\ UNCHANGED roleStore

\* setRole after its awaits: one record per mentioned role, saved under the
\* role's id
Persist ==
    /\ \E task \in pending :
        /\ roleStore' = [r \in RoleIds |->
                            IF r \in task.roles
                            THEN Some([type |-> task.type, guild |-> task.guild])
                            ELSE roleStore[r]]
        /\ pending' = pending \ {task}
    /\ UNCHANGED <<commands, patterns, funcs, middlewares, disp, trace>>
    /\ UNCHANGED <<options, defaultPrefix, parked, counts, timers>>

\* the callback deferClear handed to setTimeout runs: the window of the user
\* ends
clear(id) ==
    /\ timers[id] > 0
    /\ counts' = [counts EXCEPT ![id] = Some(0)]
    /\ timers' = [timers EXCEPT ![id] = @ - 1]
    /\ UNCHANGED <<commands, patterns, funcs, middlewares, roleStore, pending>>
    /\ UNCHANGED <<disp, trace, options, defaultPrefix, parked>>

DeferClear == \E id \in Users : clear(id)

\* the promise message() returned is dropped (listen ignores it)
Discard ==
    /\ disp.pc \in {"done", "hung"}
    /\ disp' = Idle
    /\ trace' = << >>
    /\ UNCHANGED <<commands, patterns, funcs, middlewares, roleStore, pending>>
    /\ UNCHANGED <<options, defaultPrefix, parked, counts, timers>>

(***************************************************************************)
(* Spec: the engine with predicates of the application as middleware.      *)
(***************************************************************************)
Next ==
    \/ Use(Wares, MaxWares)
    \/ DefineCommand(Definitions, MaxDefs)
    \/ Message(Messages)
    \/ PredicateResolves
    \/ PredicateThrows
    \/ Discard

Spec == Init /\ [][Next]_vars

(***************************************************************************)
(* SpecAuth: the engine with auth.authenticate as middleware, the addrole  *)
(* command and the role store.                                             *)
(***************************************************************************)
NextAuth ==
    \/ Use(AuthWares, MaxAuthWares)
    \/ DefineCommand(AuthDefinitions, MaxAuthDefs)
    \/ Message(AuthMessages)
    \/ RoleLookup
    \/ RoleLookupFails
    \/ Persist
    \/ Discard

SpecAuth == Init /\ [][NextAuth]_vars

(***************************************************************************)
(* SpecErrors: predicates and auth.authenticate as middleware, handlers    *)
(* that fail, messages that meet each expected condition.                  *)
(***************************************************************************)
NextErrors ==
    \/ Use(ErrorWares, MaxErrorWares)
    \/ DefineCommand(ErrorDefinitions, MaxErrorDefs)
    \/ Message(ErrorMessages)
    \/ PredicateResolves
    \/ PredicateThrows
    \/ RoleLookup
    \/ RoleLookupFails
    \/ Persist
    \/ Discard

SpecErrors == Init /\ [][NextErrors]_vars

(***************************************************************************)
(* SpecRegistry: alias commands registered over each other, no middleware. *)
(***************************************************************************)
NextRegistry ==
    \/ DefineCommand(RegistryDefinitions, MaxRegistryDefs)
    \/ Message(RegistryMessages)
    \/ Discard

SpecRegistry == Init /\ [][NextRegistry]_vars

(***************************************************************************)
(* SpecOptions: the engine constructed with each bot type, with and without*)
(* deleteCommandMessage; alias, noPrefix and pattern commands.             *)
(***************************************************************************)
NextOptions ==
    \/ Use(OptionWares, MaxOptionWares)
    \/ DefineCommand(OptionDefinitions, MaxOptionDefs)
    \/ Message(OptionMessages)
    \/ PredicateResolves
    \/ PredicateThrows
    \/ Persist
    \/ Discard

SpecOptions == InitOptions /\ [][NextOptions]_vars

(***************************************************************************)
(* SpecTokens: the tokenizer applied to every text of at most MaxLen       *)
(* characters.                                                             *)
(***************************************************************************)
NextTokens ==
    \/ DefineCommand(TokenDefinitions, MaxTokenDefs)
    \/ Message(TokenMessages)
    \/ Discard

SpecTokens == Init /\ [][NextTokens]_vars

(***************************************************************************)
(* SpecLimiter: limiter.protect and predicates as middleware, dispatches   *)
(* that overlap, the timers of the limiter.  SpecLimiterFair: the same,    *)
(* where every callback handed to setTimeout runs in the end.              *)
(***************************************************************************)
NextLimiter ==
    \/ Use(LimiterWares, MaxLimiterWares)
    \/ DefineCommand(LimiterDefinitions, MaxLimiterDefs)
    \/ Message(LimiterMessages)
    \/ MessageMeanwhile(LimiterMessages)
    \/ PredicateResolves
    \/ DeferClear
    \/ Discard

SpecLimiter == Init /\ [][NextLimiter]_vars

SpecLimiterFair == SpecLimiter /\ \A id \in Users : WF_vars(clear(id))

(***************************************************************************)
(* SpecFanOut: limiter.protect as the middleware of messages that resolve  *)
(* to one candidate and to two.                                            *)
(***************************************************************************)
NextFanOut ==
    \/ Use(FanOutWares, MaxFanOutWares)
    \/ DefineCommand(FanOutDefinitions, MaxFanOutDefs)
    \/ Message(FanOutMessages)
    \/ DeferClear
    \/ Discard

SpecFanOut == Init /\ [][NextFanOut]_vars

(***************************************************************************)
(* SpecPrefix: the engine constructed with a prefix that has a letter in   *)
(* it, and messages that write the prefix in either letter case.           *)
(***************************************************************************)
NextPrefix ==
    \/ Use(PrefixWares, MaxPrefixWares)
    \/ DefineCommand(PrefixDefinitions, MaxPrefixDefs)
    \/ Message(PrefixMessages)
    \/ PredicateResolves
    \/ Discard

SpecPrefix == InitPrefix /\ [][NextPrefix]_vars

(***************************************************************************)
(* SpecGuilds: auth.authenticate in front of commands used in two guilds   *)
(* that persist roles of their own.                                        *)
(***************************************************************************)
NextGuilds ==
    \/ Use(GuildWares, MaxGuildWares)
    \/ DefineCommand(GuildDefinitions, MaxGuildDefs)
    \/ Message(GuildMessages)
    \/ RoleLookup
    \/ Persist
    \/ Discard

SpecGuilds == Init /\ [][NextGuilds]_vars

(***************************************************************************)
(* SpecPatterns: alias and pattern commands, and messages that name the    *)
(* pattern commands by their names and by their patterns; no middleware.   *)
(***************************************************************************)
NextPatterns ==
    \/ DefineCommand(PatternDefinitions, MaxPatternDefs)
    \/ Message(PatternMessages)
    \/ Discard

SpecPatterns == Init /\ [][NextPatterns]_vars

(***************************************************************************)
(* SpecLive: predicates of the application that never throw, and handlers  *)
(* whose bodies may stay suspended.  SpecLiveFair: the same, where every   *)
(* predicate that was invoked resolves in the end and a settled promise of *)
(* message() is dropped.                                                   *)
(***************************************************************************)
NextLive ==
    \/ Use(LiveWares, MaxLiveWares)
    \/ DefineCommand(LiveDefinitions, MaxLiveDefs)
    \/ Message(LiveMessages)
    \/ PredicateResolves
    \/ Persist
    \/ Discard

SpecLive == Init /\ [][NextLive]_vars

SpecLiveFair == SpecLive /\ WF_vars(PredicateResolves) /\ WF_vars(Discard)

(***************************************************************************)
(* SpecHelp: use, defineCommand and generateHelp in every order, with      *)
(* alias commands that share aliases, pattern commands that share a RegExp *)
(* and an alias no object binds.                                           *)
(***************************************************************************)
NextHelp ==
    \/ Use(HelpWares, MaxHelpWares)
    \/ DefineCommand(HelpDefinitions, MaxHelpDefs)
    \/ GenerateHelp(MaxHelpDefs)
    \/ Message(HelpMessages)
    \/ PredicateResolves
    \/ Discard

SpecHelp == Init /\ [][NextHelp]_vars

(***************************************************************************)
(* Properties.  They read the trace of the dispatch in flight.             *)
(***************************************************************************)
Events == 1..Len(trace)

Candidates == 1..Len(disp.cands)

\* the definition of candidate c of the dispatch in flight
definitionOf(c) == funcs[disp.cands[c]].definition

\* the minimum level candidate c carries (ALL: none)
required(c) ==
    IF noAuthentication(definitionOf(c)) THEN ALL ELSE definitionOf(c).authentication[1]

\* the message in flight passed the verifier and the tokenizer
resolvedMessage ==
    disp.pc # "idle" /\ verifier(disp.msg) /\ parseRequest(disp.msg.content).ok

\* candidate c failed a check of its own: the prefix requirement, its
\* parameters, or a middleware predicate that resolved falsy
failed(c) ==
    \/ prefixMissing(disp.chatPrefix, funcs[disp.cands[c]])
    \/ \E i \in Events :
          /\ trace[i].c = c
          /\ trace[i].e = "badparams" \/ (trace[i].e = "result" /\ ~trace[i].ok)

handled(c) == \E i \in Events : trace[i] = Ev("handler", c, 0, TRUE)

authenticating == \E w \in 1..Len(middlewares) : middlewares[w] = "authenticate"

\* C1: for every candidate, once a predicate of the middleware list has
\* resolved to a falsy result, no later predicate of the list is invoked for
\* that candidate.
C1_StopsAtFirstRejection ==
    \A i, j \in Events :
        (/\ trace[i].e = "result" /\ ~trace[i].ok
         /\ trace[j].e = "ware" /\ trace[j].c = trace[i].c)
        => trace[j].w <= trace[i].w

\* C2: a candidate's handler is invoked only after every registered
\* middleware predicate was invoked for that candidate and resolved truthy;
\* a candidate for which some predicate resolved falsy has no handler
\* invocation.
C2_HandlerAfterAllWares ==
    \A h \in Events :
        trace[h].e = "handler" =>
            /\ \A w \in 1..Len(middlewares) :
                  \E i, j \in 1..(h - 1) :
                      /\ i < j
                      /\ trace[i] = Ev("ware", trace[h].c, w, TRUE)
                      /\ trace[j] = Ev("result", trace[h].c, w, TRUE)
            /\ \A i \in Events :
                  ~(trace[i].e = "result" /\ trace[i].c = trace[h].c /\ ~trace[i].ok)

\* two predicates are registered and the second candidate of a message got
\* its handler invoked
C2_Witness ==
    /\ Len(middlewares) = 2
    /\ \E h \in Events : trace[h] = Ev("handler", 2, 0, TRUE)

\* C3: when message() has returned and no middleware loop is left, every
\* candidate of the message either failed a check of its own or had its
\* handler invoked: the failure of an earlier candidate does not keep a later
\* one from being processed.
C3_LaterCandidatesProcessed ==
    (disp.pc = "done" /\ resolvedMessage) =>
        \A c \in Candidates : failed(c) \/ handled(c)

\* the highest level persisted for a role the author holds in the guild
\* (ALL: none)
persistedLevel(message) ==
    LET levels == {roleStore[r][1].type :
                     r \in {q \in RoleIds \cap memberRoles(message.author) :
                              roleStore[q] # Undefined /\ roleStore[q][1].guild = Guild}}
    IN  IF levels = {} THEN ALL ELSE CHOOSE l \in levels : \A k \in levels : k <= l

\* C4: authorization is monotonic in the role level: for an author that is
\* neither the superuser nor the guild owner and whose highest persisted level
\* is L, the lookup of authenticate accepts a command of minimum level R
\* exactly if L >= R.
C4_Monotonic ==
    [][(/\ disp.pc = "lookup"
        /\ Len(trace') > Len(trace)
        /\ trace'[Len(trace) + 2].e # "lookupfailed"
        /\ disp.msg.author \notin {Superuser, GuildOwner})
       => ((trace'[Len(trace) + 2].e # "denied")
              <=> (persistedLevel(disp.msg) >= required(disp.ci)))]_vars

\* C5: with authenticate registered as middleware, the addrole handler is
\* invoked only for a message of the guild owner or of the superuser.
C5_OnlyOwnerAssigns ==
    authenticating =>
        \A h \in Events :
            (trace[h].e = "handler" /\ definitionOf(trace[h].c).action = "addRoleCommand")
            => disp.msg.author \in {GuildOwner, Superuser}

\* C6: no lookup is sent to the role store, and authenticate never resolves
\* falsy, for a message of the superuser whatever the command requires, nor
\* for a message of the guild owner and a command that requires OWNER or
\* less.
C6_FastPath ==
    \A i \in Events :
        (trace[i].e \in {"lookup", "lookupfailed", "denied"} \/ (trace[i].e = "result" /\ ~trace[i].ok))
        => /\ disp.msg.author # Superuser
           /\ disp.msg.author = GuildOwner => required(trace[i].c) > OWNER

\* the superuser got the handler of a command that requires SUPERUSER, with
\* authenticate registered
C6_Witness ==
    /\ authenticating
    /\ disp.msg.author = Superuser
    /\ \E c \in Candidates : required(c) = SUPERUSER /\ handled(c)

\* the denial notices sent for the message in flight
denials == Cardinality({i \in Events : trace[i].e = "denied"})

\* candidate c carries a minimum level that neither the author's fast level
\* nor a persisted role of the author satisfies
unauthorised(c) ==
    /\ required(c) > getHighestRole(disp.msg)
    /\ roleRecords(disp.msg, definitionOf(c)) = 0

\* C7: when a message has been dispatched with authenticate registered, for
\* every candidate that meets its prefix requirement and that the author has
\* neither a fast-path level nor a persisted role for, the handler was not
\* invoked and exactly one denial notice was sent for the message.
C7_DeniedOnce ==
    (disp.pc = "done" /\ resolvedMessage /\ authenticating) =>
        \A c \in Candidates :
            (unauthorised(c) /\ ~prefixMissing(disp.chatPrefix, funcs[disp.cands[c]]))
            => (~handled(c) /\ denials = 1)

\* C8: every record of the role store, and every record an addrole handler is
\* about to persist, has level MOD or ADMIN.
C8_OnlyModOrAdmin ==
    /\ \A r \in RoleIds : roleStore[r] # Undefined => roleStore[r][1].type \in {MOD, ADMIN}
    /\ \A task \in pending : task.type \in {MOD, ADMIN}

\* the addrole handler ran for the type "owner" while the store holds a record
C8_Witness ==
    /\ disp.msg.content = "!addrole owner @r1"
    /\ \E c \in Candidates : handled(c)
    /\ \E r \in RoleIds : roleStore[r] # Undefined

\* the symbols of the handlers invoked by the events of t, in order
RECURSIVE handlers(_)
handlers(t) ==
    IF t = <<>> THEN <<>>
    ELSE (IF t[1].e = "handler" THEN <<disp.cands[t[1].c]>> ELSE <<>>) \o handlers(Tail(t))

\* the symbols 1..n of the registered pattern definitions whose pattern
\* matches the content, in the order of their registration
RECURSIVE matching(_, _)
matching(n, content) ==
    IF n = 0 THEN <<>>
    ELSE matching(n - 1, content)
         \o (IF funcs[n].pattern /\ test(funcs[n].definition.pattern[1], content)
             THEN <<n>> ELSE <<>>)

\* C9: for a dispatched message whose command word is an alias and whose
\* candidates all pass their checks, the handlers invoked are the alias's and
\* then those of the registered pattern definitions that match the content,
\* each once, in the order of registration, and the events of one candidate
\* never come after those of a later one.
C9_OrderedFanOut ==
    LET key == toLowerCase(parseRequest(disp.msg.content).chatCommand)
    IN  (/\ disp.pc = "done" /\ resolvedMessage
         /\ key \in DOMAIN commands
         /\ \A c \in Candidates : ~failed(c))
        => /\ handlers(trace) = <<commands[key]>> \o matching(Len(funcs), disp.msg.content)
           /\ \A i, j \in Events : i < j => trace[i].c <= trace[j].c

\* C10: the candidates of a resolved message hold every registered pattern
\* definition whose pattern matches the content of the message.
C10_EveryMatchingPattern ==
    resolvedMessage =>
        \A n \in 1..Len(funcs) :
            (funcs[n].pattern /\ test(funcs[n].definition.pattern[1], disp.msg.content))
            => \E c \in Candidates : disp.cands[c] = n

\* C11: when a message has been dispatched, every pattern candidate of it that
\* did not fail a check of its own had its handler invoked, whether or not the
\* message carries the prefix and whatever became of an alias candidate.
C11_PatternIndependent ==
    (disp.pc = "done" /\ resolvedMessage) =>
        \A c \in Candidates :
            (funcs[disp.cands[c]].pattern /\ ~failed(c)) => handled(c)

\* the symbols of the alias-based definitions
AliasSymbols == {n \in 1..Len(funcs) : ~funcs[n].pattern}

\* w and a are the same word up to letter case
sameWord(w, a) == toUpperCase(w) = toUpperCase(a)

\* definition n lists an alias that is the word w up to letter case
lists(n, w) == \E i \in 1..Len(funcs[n].aliases) : sameWord(w, funcs[n].aliases[i])

\* the alias-based definition registered last among those that list w
latest(w) == CHOOSE n \in AliasSymbols : lists(n, w) /\ \A k \in AliasSymbols : lists(k, w) => k <= n

\* the command word of the message in flight
chatCommand == parseRequest(disp.msg.content).chatCommand

\* C12: every alias of every registered alias-based definition resolves to the
\* definition registered last among those that list it, and so does the alias
\* candidate of a message whose command word is that alias.
C12_LastWriteWins ==
    /\ \A n \in AliasSymbols : \A i \in 1..Len(funcs[n].aliases) :
          LET a == funcs[n].aliases[i]
          IN  /\ getCommand(a, a) # <<>>
              /\ getCommand(a, a)[1] = latest(a)
    /\ (resolvedMessage /\ \E n \in AliasSymbols : lists(n, chatCommand))
          => (disp.cands # <<>> /\ disp.cands[1] = latest(chatCommand))

\* an alias listed by two registered definitions resolved to the later one,
\* and its handler ran
C12_Witness ==
    /\ resolvedMessage
    /\ \E m, n \in AliasSymbols :
          /\ m < n /\ lists(m, chatCommand) /\ lists(n, chatCommand)
          /\ funcs[m].definition # funcs[n].definition
          /\ disp.cands[1] = n
    /\ handled(1)

\* command words a user may type
Words == {"ping", "PING", "Ping", "pInG", "P", "ECHO", "eCho", "Kick", "KICK", "kic",
          "PROTO", "__PROTO__"}

\* C13: for every alias a of a registered alias-based definition and every
\* command word w that is a up to letter case, resolving w yields the
\* definition that resolving a itself yields.
C13_CaseInsensitive ==
    \A n \in AliasSymbols : \A i \in 1..Len(funcs[n].aliases) : \A w \in Words :
        LET a == funcs[n].aliases[i]
        IN  sameWord(w, a) =>
                /\ getCommand(w, w) # <<>>
                /\ getCommand(a, a) # <<>>
                /\ getCommand(w, w)[1] = getCommand(a, a)[1]
                /\ lists(getCommand(w, w)[1], a)

\* the alias registered as "Ping" and no other definition: the word "PING"
\* resolved to it and its handler ran
C13_Witness ==
    /\ disp.msg.content = "!PING"
    /\ \A n \in AliasSymbols : funcs[n].definition = Ping
    /\ disp.cands # <<>>
    /\ definitionOf(1) = Ping
    /\ handled(1)

\* definitions m and n share no alias, compared without letter case
disjoint(m, n) ==
    \A i \in 1..Len(funcs[m].aliases) : ~lists(n, funcs[m].aliases[i])

\* C14: for two registered alias-based definitions that share no alias, a
\* message whose command word is an alias of the one never has the other as
\* its alias candidate.
C14_DisjointAliases ==
    resolvedMessage =>
        \A m, n \in AliasSymbols :
            (disjoint(m, n) /\ lists(m, chatCommand))
            => \A c \in Candidates : disp.cands[c] # n

\* two definitions without a common alias are registered, and a word of the
\* first registered one resolved to it
C14_Witness ==
    /\ resolvedMessage
    /\ \E m, n \in AliasSymbols :
          /\ m < n /\ disjoint(m, n) /\ lists(m, chatCommand)
          /\ disp.cands = <<m>>
    /\ handled(1)

\* the events e of the trace
count(e) == Cardinality({i \in Events : trace[i].e = e})

\* C15: when one of the expected conditions was met (a malformed request, an
\* unknown command, a missing prefix, parameters that do not fit, a rejection
\* by a middleware, the denial of authenticate among them), the promise of
\* message() fulfilled, once, and did not reject.
C15_ExpectedSwallowed ==
    (\E i \in Events : trace[i].e \in CommandErrors)
        => (count("return") = 1 /\ count("fatal") = 0 /\ disp.pc # "hung")

\* authenticate denied a command and message() fulfilled
C15_Witness ==
    /\ count("denied") = 1
    /\ count("rejection") = 1
    /\ count("return") = 1
    /\ disp.pc = "done"

\* C16: when a middleware predicate threw, the promise of message() rejected:
\* it neither fulfilled nor stays pending.
C16_PredicateErrorFatal ==
    (\E i \in Events : trace[i].e = "threw")
        => (count("fatal") = 1 /\ count("return") = 0 /\ disp.pc # "hung")

\* C17: when a handler failed, by an Error thrown at its invocation or by a
\* rejection of the promise it returned, the promise of message() rejected.
C17_HandlerErrorFatal ==
    (\E i \in Events : trace[i].e \in {"error", "unhandled"})
        => (count("fatal") = 1 /\ count("return") = 0)

\* a handler threw at its invocation and the promise of message() rejected
C17_Witness ==
    count("error") = 1 /\ count("fatal") = 1 /\ disp.pc = "done"

\* C18: when the role-store query of authenticate failed for a candidate, the
\* outcome is a denial: the denial notice was sent, the handler of the
\* candidate was not invoked, and the promise of message() fulfilled.
C18_StoreFailureDenies ==
    \A i \in Events :
        trace[i].e = "lookupfailed" =>
            /\ count("denied") = 1
            /\ ~handled(trace[i].c)
            /\ count("return") = 1 /\ count("fatal") = 0 /\ disp.pc # "hung"

\* C19: for a candidate that a predicate registered before authenticate
\* rejected, authenticate is not invoked afterwards, no lookup is sent to the
\* role store and no denial notice is sent.
C19_SpamBeforeAuth ==
    \A i, j \in Events :
        (/\ trace[i].e = "result" /\ ~trace[i].ok
         /\ middlewares[trace[i].w] = "predicate"
         /\ i < j /\ trace[j].c = trace[i].c)
        => /\ trace[j].e \notin {"lookup", "lookupfailed", "denied"}
           /\ trace[j].e = "ware" => middlewares[trace[j].w] # "authenticate"

\* candidate c meets its prefix requirement: the message carries the prefix,
\* or the definition is a pattern or asks for no prefix
prefixOk(c) ==
    \/ disp.chatPrefix = Prefix
    \/ funcs[disp.cands[c]].pattern
    \/ funcs[disp.cands[c]].definition.noPrefix

\* C20: the steps of a candidate run in the order prefix check, parameter
\* extraction, middleware, handler, each gating the next: a candidate whose
\* parameter extraction failed had passed its prefix check, no middleware
\* predicate and no handler is invoked for it, and one notice, the one of the
\* parameters, is sent for the message; a candidate for which a predicate or
\* the handler was invoked had passed its prefix check.
C20_ParametersGate ==
    /\ \A i \in Events :
          trace[i].e = "badparams" =>
              /\ prefixOk(trace[i].c)
              /\ \A j \in Events :
                    trace[j].c = trace[i].c => trace[j].e \notin {"ware", "result", "handler"}
              /\ count("badparams") = 1
              /\ count("denied") = 0 /\ count("notfound") = 0
              /\ i < Len(trace) /\ trace[i + 1].e = "return"
    /\ \A i \in Events : trace[i].e \in {"ware", "handler"} => prefixOk(trace[i].c)

\* the parameters of a command did not fit while a middleware is registered:
\* the notice was sent and message() returned
C20_Witness ==
    /\ Len(middlewares) >= 1
    /\ count("badparams") = 1
    /\ disp.pc = "done"

\* the bot type in force: 'normal' where the options name none
botType == IF options.botType = Undefined THEN "normal" ELSE options.botType[1]

\* the message is eligible under the bot type in force
eligible(message) ==
    CASE botType = "normal" -> message.author # ClientUser
      [] botType = "self" -> message.author = ClientUser
      [] botType = "guildonly" -> message.channel = "text"

\* C21: the eligibility gate comes before everything else: a dispatch has
\* done something (tokenized, sent a notice, invoked a middleware or a
\* handler) exactly if its message is eligible, where in mode 'normal' a
\* message is eligible iff its author is not the bot, in mode 'self' iff its
\* author is the bot, in mode 'guildonly' iff it was sent in a text channel of
\* a guild, and the mode is 'normal' where no options were given; for an
\* ineligible message, message() has returned.
C21_EligibilityGate ==
    disp.pc # "idle" =>
        /\ eligible(disp.msg) <=> trace # <<>>
        /\ ~eligible(disp.msg) => (disp.pc = "done" /\ disp.cands = <<>>)

\* in mode 'guildonly' a direct message of the bot itself, with a command and
\* a pattern registered that it names, was dropped
C21_Witness ==
    /\ options.botType = Some("guildonly")
    /\ disp.msg = MsgIn(ClientUser, "!ping ng", {}, "dm")
    /\ getCommand("ping", disp.msg.content) # <<>>
    /\ disp.pc = "done"
    /\ trace = <<>>

\* the dispatch in flight got no candidate from an eligible, well-formed message
noCandidate ==
    /\ disp.pc # "idle"
    /\ eligible(disp.msg)
    /\ trim(disp.msg.content) # ""
    /\ disp.cands = <<>>

\* C22: when a message resolves to no candidate, the 'Command not found'
\* notice is sent (once) if and only if the tokenized prefix is the
\* configured prefix and the message does not begin with two copies of the
\* prefix, and no middleware and no handler is invoked; a message that
\* resolves to a candidate gets no such notice.
C22_NotFoundNotice ==
    /\ noCandidate =>
          /\ count("notfound") = (IF /\ disp.chatPrefix = Prefix
                                     /\ ~startsWith(disp.msg.content, Prefix \o Prefix)
                                  THEN 1 ELSE 0)
          /\ \A i \in Events : trace[i].e \in {"notfound", "unknown", "return"}
          /\ disp.pc = "done"
    /\ disp.cands # <<>> => count("notfound") = 0

\* with a middleware and commands registered, a message that begins with the
\* doubled prefix and names no command got no notice
C22_Witness ==
    /\ noCandidate
    /\ Len(middlewares) >= 1 /\ Len(funcs) >= 1
    /\ startsWith(disp.msg.content, Prefix \o Prefix)
    /\ disp.chatPrefix = Prefix
    /\ count("notfound") = 0
    /\ count("unknown") = 1

\* the words of a text: its maximal runs of characters that are no whitespace
RECURSIVE words(_)
words(s) ==
    IF s = "" THEN <<>>
    ELSE IF CharAt(s, 1) = " " THEN words(SubSeq(s, 2, Len(s)))
    ELSE LET n == CHOOSE k \in 1..Len(s) :
                    /\ \A j \in 1..k : CharAt(s, j) # " "
                    /\ k = Len(s) \/ CharAt(s, k + 1) = " "
         IN  <<SubSeq(s, 1, n)>> \o words(SubSeq(s, n + 1, Len(s)))

\* the dispatch in flight has tokenized its message
tokenized ==
    disp.pc # "idle" /\ eligible(disp.msg) /\ count("malformed") = 0

\* C23: the arguments of a tokenized message are the words of the message
\* after the first one, in order, and none of them is the empty string.
C23_WordsOnly ==
    tokenized =>
        /\ disp.parameters = Tail(words(disp.msg.content))
        /\ \A i \in 1..Len(disp.parameters) : disp.parameters[i] # ""

\* the first token of a text that is not empty after trimming
firstToken(s) == words(s)[1]

\* C24: tokenizing fails (MalformedRequest) exactly for a message that is
\* empty after trimming; for every other message the prefix is the configured
\* prefix if the first token starts with it and has at least one more
\* character, and empty otherwise, and the command word is the rest of the
\* first token.
C24_Tokenizer ==
    (disp.pc # "idle" /\ eligible(disp.msg)) =>
        /\ count("malformed") = (IF trim(disp.msg.content) = "" THEN 1 ELSE 0)
        /\ trim(disp.msg.content) # "" =>
              LET first == firstToken(disp.msg.content)
                  fused == startsWith(first, Prefix) /\ Len(first) > Len(Prefix)
              IN  /\ disp.chatPrefix = (IF fused THEN Prefix ELSE "")
                  /\ disp.chatPrefix \o disp.chatCommand = first
                  /\ disp.chatCommand # ""

\* the message that is the prefix and nothing else was tokenized: no prefix,
\* and the prefix as the command word
C24_Witness ==
    /\ disp.pc = "done"
    /\ disp.msg.content = Prefix
    /\ disp.chatPrefix = ""
    /\ disp.chatCommand = Prefix
    /\ count("unknown") = 1

C27_HandlerNotAwaited ==
    /\ \A h \in Events :
          (/\ trace[h].e = "handler"
           /\ ~(h < Len(trace) /\ trace[h + 1].e = "error"))
          => \E j \in (h + 1)..Len(trace) :
                IF trace[h].c < Len(disp.cands)
                THEN trace[j].c = trace[h].c + 1
                ELSE trace[j].e = "return"
    /\ \A j \in Events :
          trace[j].c > 1 =>
              /\ \E h \in 1..(j - 1) : trace[h] = Ev("handler", trace[j].c - 1, 0, TRUE)
              /\ \A w \in 1..Len(middlewares) :
                    \E i \in 1..(j - 1) : trace[i] = Ev("result", trace[j].c - 1, w, TRUE)

\* with a middleware registered, the handler of addrole was invoked, then the
\* handler of the next candidate, and message() returned, all while the body
\* of addrole is still suspended before it persists
C27_Witness ==
    /\ Len(middlewares) = 1
    /\ Len(disp.cands) = 2
    /\ definitionOf(1).action = "addRoleCommand"
    /\ handled(1) /\ handled(2)
    /\ pending # {}
    /\ count("return") = 1
    /\ disp.pc = "done"

\* C28: a dispatch only reads the registry: a step that starts a dispatch or
\* lets one run on, with others suspended or not, leaves the alias map, the
\* pattern collection, the handler store, the middleware list and the prefix
\* as they are; and the prefix is the one given at construction, for ever.
C28_DispatchReadsOnly ==
    [][/\ (<<disp, trace, parked>>' # <<disp, trace, parked>>)
            => UNCHANGED <<commands, patterns, funcs, middlewares, defaultPrefix>>
       /\ defaultPrefix' = Prefix]_vars

\* two dispatches overlapped: one is suspended at its middleware while the
\* other has run its handler, with the command still registered
C28_Witness ==
    /\ BagCardinality(parked) >= 1
    /\ disp.pc = "done"
    /\ handled(1)
    /\ commands # << >>
    /\ defaultPrefix = Prefix

\* the checks the limiter has counted for a user in the window (none: 0)
counted(k, id) == IF k[id] = Undefined THEN 0 ELSE k[id][1]

\* the places in t of the answers of limiter.protect
protectResults(t) ==
    {i \in 1..Len(t) : t[i].e = "result" /\ middlewares[t[i].w] = "protect"}

\* the last n answers of limiter.protect in t
lastProtectResults(t, n) ==
    {i \in protectResults(t) : Cardinality({m \in protectResults(t) : m > i}) < n}

\* C29: with limiter.protect registered, under every interleaving of
\* dispatches: a check made once the count of the user has reached the limit
\* answers false, and a dispatch that the limiter answered false invokes no
\* handler from then on; a window that has begun has its reset timer set, and
\* the timer fires in the end and sets the count to 0; the first check after
\* a reset answers true.
C29_LimitHolds ==
    /\ [](/\ \A i \in protectResults(trace) :
                ~trace[i].ok => \A j \in Events : j > i => trace[j].e # "handler"
          /\ \A id \in Users : counted(counts, id) > 0 => timers[id] > 0)
    /\ [][\A id \in Users :
            LET n == counted(counts', id) - counted(counts, id)
            IN  counted(counts', id) > counted(counts, id) =>
                    /\ disp'.msg.author = id
                    /\ Cardinality(lastProtectResults(trace', n)) = n
                    /\ counted(counts, id) >= intervalMessageLimit =>
                          \A i \in lastProtectResults(trace', n) : ~trace'[i].ok
                    /\ counted(counts, id) = 0 =>
                          \E i \in lastProtectResults(trace', n) :
                              /\ trace'[i].ok
                              /\ \A m \in lastProtectResults(trace', n) : i <= m]_vars
    /\ \A id \in Users : (counted(counts, id) > 0) ~> (counts[id] = Some(0))

\* while another dispatch is suspended, a message of a user whose count had
\* reached the limit was rejected by the limiter: no handler ran
C29_Witness ==
    /\ BagCardinality(parked) >= 1
    /\ disp.msg.author \in Users
    /\ counted(counts, disp.msg.author) > intervalMessageLimit
    /\ \E i \in protectResults(trace) : ~trace[i].ok
    /\ count("handler") = 0
    /\ count("rejection") = 1
    /\ disp.pc = "done"

\* C30: a message taken while the limiter has counted fewer checks of its
\* author than the limit (so that fewer than L messages of the author came
\* before it in the window) is accepted by the limiter for every candidate
\* it resolves to.
C30_FirstLAccepted ==
    [][(/\ disp.pc = "idle" /\ disp'.pc # "idle"
        /\ disp'.msg.author \in Users
        /\ counted(counts, disp'.msg.author) < intervalMessageLimit)
       => \A i \in protectResults(trace') : trace'[i].ok]_vars

\* the second message of a window, with the limit at two, resolved to two
\* candidates: the limiter accepted the first and rejected the second
C30_Witness ==
    /\ Len(disp.cands) = 2
    /\ counts[disp.msg.author] = Some(intervalMessageLimit + 1)
    /\ handled(1) /\ ~handled(2)
    /\ \E i \in protectResults(trace) : trace[i].c = 2 /\ ~trace[i].ok
    /\ disp.pc = "done"

\* the events of the trace that belong to candidate c
eventsOf(c) == {i \in Events : trace[i].c = c}

\* C31: for a candidate whose definition carries no minimum level, every call
\* of authenticate resolves truthy at once, whoever the author is: the
\* dispatch never waits for the role store for it, no lookup is sent and no
\* denial notice is sent.
C31_NoLevelAccepted ==
    /\ \A c \in Candidates :
          definitionOf(c).authentication = Undefined =>
              \A i \in eventsOf(c) :
                  /\ trace[i].e \notin {"lookup", "lookupfailed", "denied"}
                  /\ (trace[i].e = "result" /\ middlewares[trace[i].w] = "authenticate")
                        => trace[i].ok
    /\ disp.pc = "lookup" => definitionOf(disp.ci).authentication # Undefined

\* authenticate accepted a command without a minimum level for an author
\* that has no level of its own and no persisted role
C31_Witness ==
    /\ disp.msg.author = "alice"
    /\ \A r \in RoleIds : roleStore[r] = Undefined
    /\ Len(disp.cands) = 1
    /\ definitionOf(1).authentication = Undefined
    /\ \E i \in eventsOf(1) :
          trace[i].e = "result" /\ middlewares[trace[i].w] = "authenticate" /\ trace[i].ok
    /\ handled(1)

\* the first token of the message in flight begins with the configured prefix,
\* compared without letter case, and goes on after it
prefixWritten ==
    /\ disp.pc # "idle" /\ verifier(disp.msg) /\ trim(disp.msg.content) # ""
    /\ Len(firstToken(disp.msg.content)) > Len(defaultPrefix)
    /\ toLowerCase(SubSeq(firstToken(disp.msg.content), 1, Len(defaultPrefix)))
          = toLowerCase(defaultPrefix)

\* C32: a message whose first token begins with the configured prefix,
\* written in whatever letter case, is tokenized as carrying the prefix: the
\* tokenized prefix is not empty, the command word is the rest of the first
\* token, no candidate fails for a missing prefix, and an alias the command
\* word names is the first candidate.
C32_PrefixIgnoresCase ==
    prefixWritten =>
        LET first == firstToken(disp.msg.content)
            word == SubSeq(first, Len(defaultPrefix) + 1, Len(first))
        IN  /\ disp.chatPrefix # ""
            /\ disp.chatCommand = word
            /\ count("noprefix") = 0
            /\ toLowerCase(word) \in DOMAIN commands =>
                  (disp.cands # <<>> /\ disp.cands[1] = commands[toLowerCase(word)])

\* the prefix 'y>' written as 'Y>' before the alias of a registered command
\* that requires the prefix: no prefix was tokenized, the command word is
\* the whole token and names no command
C32_Witness ==
    /\ defaultPrefix = LetterPrefix
    /\ disp.msg.content = "Y>ping"
    /\ "ping" \in DOMAIN commands
    /\ disp.chatPrefix = ""
    /\ disp.chatCommand = "Y>ping"
    /\ disp.cands = <<>>
    /\ count("unknown") = 1 /\ count("notfound") = 0
    /\ disp.pc = "done"

\* a role the author holds in the guild of the message has a persisted record
\* of that guild with a level of at most R
holdsRecord(message, R) ==
    \E r \in memberRolesIn(message.guild, message.author) \cap RoleIds :
        /\ roleStore[r] # Undefined
        /\ roleStore[r][1].guild = message.guild
        /\ roleStore[r][1].type <= R

PatternSymbols == {n \in 1..Len(funcs) : funcs[n].pattern}

\* C34: a registered definition is pattern-based exactly if it carries a
\* pattern; no alias of the alias map is bound to a pattern-based definition,
\* whatever names it lists; and a pattern-based definition is a candidate of
\* a message only where its pattern matches the content of the message.
C34_AliasOrPattern ==
    /\ \A n \in 1..Len(funcs) :
          /\ funcs[n].pattern <=> funcs[n].definition.pattern # Undefined
          /\ funcs[n].pattern => \A a \in DOMAIN commands : commands[a] # n
    /\ \A c \in Candidates :
          disp.cands[c] \in PatternSymbols =>
              test(definitionOf(c).pattern[1], disp.msg.content)

\* with the pattern command audit registered, the message '!audit', which
\* names it and does not match its pattern, resolved to no candidate
C34_Witness ==
    /\ disp.msg.content = "!audit"
    /\ \E n \in PatternSymbols : funcs[n].definition = Audit
    /\ disp.chatCommand = "audit"
    /\ disp.cands = <<>>
    /\ count("unknown") = 1
    /\ disp.pc = "done"

\* candidate c is alias-based
aliasBased(c) == ~funcs[disp.cands[c]].pattern

\* something was done for candidate c: a middleware predicate or the handler
\* was invoked
touched(c) == \E i \in eventsOf(c) : trace[i].e \in {"ware", "result", "handler"}

\* C35: for an alias-based candidate without noPrefix, no middleware
\* predicate and no handler is invoked unless the first token of the message
\* carries the configured prefix; an alias-based candidate with noPrefix is
\* dispatched with the prefix and without it: the missing-prefix condition
\* is never raised for it, and its handler is invoked unless its middleware
\* rejected it or threw.
C35_PrefixRequired ==
    \A c \in Candidates :
        aliasBased(c) =>
            IF definitionOf(c).noPrefix
            THEN /\ count("noprefix") = 0
                 /\ (disp.pc = "done" /\ definitionOf(c).parameters = Undefined)
                       => \/ handled(c)
                          \/ \E i \in eventsOf(c) :
                                \/ trace[i].e = "threw"
                                \/ trace[i].e = "result" /\ ~trace[i].ok
            ELSE /\ touched(c) => disp.chatPrefix = defaultPrefix
                 /\ (disp.chatPrefix # defaultPrefix /\ disp.pc = "done")
                       => (count("noprefix") = 1 /\ count("handler") = 0)

\* with a middleware registered, the alias ping without the prefix: the
\* missing-prefix condition was raised, no middleware and no handler ran
C35_Witness ==
    /\ Len(middlewares) >= 1
    /\ disp.msg.content = "ping"
    /\ disp.cands # <<>> /\ definitionOf(1) = Ping
    /\ ~touched(1)
    /\ count("noprefix") = 1
    /\ disp.pc = "done"

\* the promise of message() has settled
settled == count("return") + count("fatal") >= 1

\* C36: where every middleware predicate that is invoked resolves to a
\* boolean in the end, every dispatch terminates: the loop of the dispatch
\* comes to its end, by then the promise of message() has settled, once, and
\* the dispatcher gets back to Idle, for a message of no candidate, of one
\* and of several, and while the body of a handler stays suspended.
C36_DispatchTerminates ==
    /\ [](disp.pc # "hung")
    /\ [](disp.pc = "done" => (verifier(disp.msg) => count("return") + count("fatal") = 1))
    /\ (disp.pc \in {"ware", "lookup"}) ~> (disp.pc = "done" /\ settled)
    /\ (disp.pc # "idle") ~> (disp.pc = "idle")

\* a message of two candidates went through two predicates for each, and
\* message() returned while the body of an addrole handler is suspended
C36_Witness ==
    /\ Len(middlewares) = 2
    /\ Len(disp.cands) = 2
    /\ handled(1) /\ handled(2)
    /\ definitionOf(1).action = "addRoleCommand"
    /\ pending # {}
    /\ count("result") = 4
    /\ count("return") = 1
    /\ disp.pc = "done"

\* the tokens the handler store has an entry for
Tokens == 1..Len(funcs)

\* C37: after every sequence of use, defineCommand and generateHelp calls,
\* with dispatches in between: every token bound in the alias map and every
\* token of the pattern collection has an entry in the handler store; the
\* entries of the handler store carry tokens that differ from each other;
\* and a step only ever adds to the handler store: every entry stays as it
\* is, and a registration mints a token that no earlier entry carries.
C37_RegistryClosed ==
    /\ [](/\ \A a \in DOMAIN commands : commands[a] \in Tokens
          /\ \A i \in 1..Len(patterns) : patterns[i].symbol \in Tokens
          /\ \A m, n \in Tokens : m # n => funcs[m].symbol # funcs[n].symbol
          /\ \A n \in Tokens : funcs[n].symbol \in Tokens)
    /\ [][/\ Len(funcs') >= Len(funcs)
          /\ \A n \in Tokens : funcs'[n] = funcs[n]
          /\ Len(funcs') > Len(funcs) =>
                /\ Len(funcs') = Len(funcs) + 1
                /\ \A n \in Tokens : funcs[n].symbol # funcs'[Len(funcs')].symbol]_vars

\* generateHelp ran twice around a pattern command that took over the RegExp
\* of another: the first help entry and the first pattern entry are still
\* in the handler store, bound by nothing
C37_Witness ==
    /\ Len(funcs) = 3
    /\ funcs[1].definition = Help /\ funcs[3].definition = Help
    /\ commands["help"] = 3 /\ commands["h"] = 3
    /\ \A a \in DOMAIN commands : commands[a] # 1
    /\ Len(middlewares) = 1
    /\ handled(1)

\* C38: message.delete is called at most once for a message, whatever the
\* number of its candidates, and only for its first candidate, the one the
\* alias map gave.
C38_DeletedOnce ==
    /\ count("delete") <= 1
    /\ \A i \in Events : trace[i].e = "delete" => trace[i].c = 1

\* with deleteCommandMessage enabled and a middleware registered, message()
\* returned after the handlers of both candidates of a message: the message
\* was deleted once
C38_Witness ==
    /\ truthy(options.deleteCommandMessage)
    /\ Len(middlewares) = 1
    /\ Len(disp.cands) = 2
    /\ count("handler") = 2
    /\ count("delete") = 1
    /\ count("return") = 1
    /\ disp.pc = "done"

\* C39: in every state of the limiter, a user has at most one reset timer
\* that has not fired, and the count of a user is above zero only while such
\* a timer is set for that user.
C39_OneTimer ==
    \A id \in Users :
        /\ timers[id] <= 1
        /\ counted(counts, id) > 0 => timers[id] = 1

\* in one window the limiter has counted a user past the limit, across
\* dispatches that overlap, with the one timer of the window still set
C39_Witness ==
    /\ counts["alice"] = Some(intervalMessageLimit + 1)
    /\ timers["alice"] = 1
    /\ BagCardinality(parked) >= 1
    /\ \A id \in Users \ {"alice"} : counts[id] = Undefined /\ timers[id] = 0

====
